---- MODULE Spec2Model ----
(***************************************************************************)
(* A model of pyannote/audio/pipeline/simple.py: the segment-level        *)
(* pipeline SimpleDiarization and the frame-level pipeline                 *)
(* DiscreteDiarization, run repeatedly on one recording record.            *)
(*                                                                         *)
(* Time is counted in units of 0.1 ms, so that 78.5 ms is the integer 785. *)
(* Scores are counted in tenths (probability 0.8 is 8, log-probability     *)
(* -1.6 is -16); cosine distances in hundredths.                           *)
(***************************************************************************)
EXTENDS Integers, Sequences, FiniteSets, TLC

VARIABLES
    pipeline,          \* the pipeline object: [kind, ovl]
    hyper,             \* its instantiated hyper-parameters
    current_file,      \* the recording record: a function from keys to values
    pc,                \* position inside the running invocation
    caller,            \* who get_embedding returns to: "__call__" or "user"
    detector_calls,    \* calls made to each detector so far
    n_crop,            \* calls of self.emb.crop made by the running invocation
    n_pool,            \* calls of pool made by the running invocation
    pool_input,        \* the indices handed to the last call of pool
    error,             \* the exception that ended the invocation, or "none"
    speech,            \* Timeline of speech regions
    overlap,           \* Timeline of overlapped speech regions (DiscreteDiarization)
    seg,               \* candidate segments
    seg_long,          \* segments of duration >= emb_duration
    seg_shrt,          \* segments of duration < emb_duration
    emb_long,          \* embeddings of seg_long, in order
    emb_shrt,          \* embeddings of seg_shrt, in order
    cluster_long,      \* clustering labels of seg_long, in order
    segment,           \* the argument of the running get_embedding
    extended_segment,  \* the interval get_embedding falls back to
    crops,             \* the intervals the running get_embedding handed to self.emb.crop
    emb,               \* frame-level embeddings (DiscreteDiarization)
    speech_indices,
    clean_speech_indices,
    noisy_speech_indices,
    cluster,           \* frame-level cluster of each clustered index
    num_clusters,
    most_similar,      \* noisy frame -> the clusters argpartition selected
    hypothesis         \* the returned Annotation: a set of <<where, label>>

calls == <<detector_calls, n_crop, n_pool, pool_input>>
simple_locals == <<speech, seg, seg_long, seg_shrt, emb_long, emb_shrt, cluster_long>>
embedding_locals == <<segment, extended_segment, crops>>
discrete_locals ==
    <<overlap, emb, speech_indices, clean_speech_indices, noisy_speech_indices, cluster,
      num_clusters, most_similar>>
vars ==
    <<pipeline, hyper, current_file, pc, caller, error, calls, simple_locals,
      embedding_locals, discrete_locals, hypothesis>>

----------------------------------------------------------------------------
(* Bounds of the model. *)

\* number of frames of every detector's score curve
NFrames == 5

----------------------------------------------------------------------------
(* Units and elementary operations. *)

Ms(n) == 10 * n
\* duration of one frame of the sliding window shared by detectors and embeddings
Step == Ms(250)
FrameStart(i) == (i - 1) * Step
FrameEnd(i) == i * Step
FrameMiddle(i) == FrameStart(i) + Step \div 2

Min2(a, b) == IF a <= b THEN a ELSE b
Max2(a, b) == IF a >= b THEN a ELSE b

\* pyannote.core.Segment: <<start, end>>
Duration(s) == s[2] - s[1]
\* twice Segment.middle, which is .5 * (start + end)
Middle2(s) == s[1] + s[2]
Range(f) == {f[i] : i \in DOMAIN f}

RECURSIVE SortSegments(_)
\* a set of segments as a Timeline: sorted by start, then by end
SortSegments(S) ==
    IF S = {} THEN << >>
    ELSE LET first == CHOOSE s \in S :
                        \A t \in S : s[1] < t[1] \/ (s[1] = t[1] /\ s[2] <= t[2])
         IN <<first>> \o SortSegments(S \ {first})

\* Timeline.crop(support, mode="intersection"): the non-empty intersections
Crop(timeline, support) ==
    SortSegments({ <<Max2(s[1], t[1]), Min2(s[2], t[2])>> :
                     <<s, t>> \in { p \in Range(timeline) \X Range(support) :
                                      Max2(p[1][1], p[2][1]) < Min2(p[1][2], p[2][2]) } })

RECURSIVE GapsFrom(_, _, _)
GapsFrom(timeline, from, extent) ==
    IF timeline = << >>
    THEN IF from < extent[2] THEN << <<from, extent[2]>> >> ELSE << >>
    ELSE LET s == Head(timeline)
         IN (IF from < s[1] THEN << <<from, s[1]>> >> ELSE << >>)
              \o GapsFrom(Tail(timeline), Max2(from, s[2]), extent)
\* Timeline.gaps(support=extent)
Gaps(timeline, extent) == GapsFrom(timeline, extent[1], extent)

\* the frames whose middle lies in a segment of the timeline (one_hot_encoding, mode="center")
OneHotEncoding(timeline) ==
    { i \in 1..NFrames :
        \E s \in Range(timeline) : s[1] <= FrameMiddle(i) /\ FrameMiddle(i) <= s[2] }

----------------------------------------------------------------------------
(* Score curves and the log-probability correction. *)

ProbValues == {2, 8}
LogValues == {-16, -2}
\* what a detector may return: a curve of probabilities or of log-probabilities
RawCurves == [1..NFrames -> ProbValues] \cup [1..NFrames -> LogValues]

RECURSIVE SumSeq(_)
SumSeq(s) == IF s = << >> THEN 0 ELSE Head(s) + SumSeq(Tail(s))

\* np.exp in tenths, rounded: exp(-1.6) = 0.20, exp(-0.2) = 0.82, exp(0.2) = 1.22, ...
Exp(x) ==
    CASE x = -16 -> 2
      [] x = -2 -> 8
      [] x = 2 -> 12
      [] x = 8 -> 22
      [] x = 12 -> 33
      [] x = 22 -> 90
      [] OTHER -> 10

\* np.nanmean(scores) < 0
MeanIsNegative(scores) == SumSeq(scores) < 0

ExpAlways(scores) == [i \in DOMAIN scores |-> Exp(scores[i])]
\* if np.nanmean(scores) < 0: scores = np.exp(scores)
Correct(scores) ==
    IF MeanIsNegative(scores) THEN [i \in DOMAIN scores |-> Exp(scores[i])] ELSE scores

----------------------------------------------------------------------------
(* Binarize and Peak (pyannote.audio.utils.signal). *)

\* the maximal runs of active frames, as intervals of time
ActiveRuns(active) ==
    LET starts == { i \in 1..NFrames : i \in active /\ (i - 1) \notin active }
        EndOf(i) == CHOOSE j \in i..NFrames :
                      (\A k \in i..j : k \in active) /\ (j + 1) \notin active
    IN SortSegments({ <<FrameStart(i), FrameEnd(EndOf(i))>> : i \in starts })

RECURSIVE MergeGaps(_, _)
\* merge consecutive intervals separated by a gap shorter than min_duration_off
MergeGaps(timeline, min_duration_off) ==
    IF Len(timeline) < 2 THEN timeline
    ELSE IF timeline[2][1] - timeline[1][2] < min_duration_off
         THEN MergeGaps(<< <<timeline[1][1], timeline[2][2]>> >> \o Tail(Tail(timeline)),
                        min_duration_off)
         ELSE <<Head(timeline)>> \o MergeGaps(Tail(timeline), min_duration_off)

\* Binarize(onset, offset, min_duration_on, min_duration_off).apply(scores)
Binarize(scores, onset, offset, min_duration_on, min_duration_off) ==
    LET on[i \in 0..NFrames] ==
            IF i = 0 THEN FALSE
            ELSE IF on[i - 1] THEN ~(scores[i] < offset) ELSE scores[i] >= onset
        merged == MergeGaps(ActiveRuns({ i \in 1..NFrames : on[i] }), min_duration_off)
    IN SelectSeq(merged, LAMBDA s : Duration(s) >= min_duration_on)

RECURSIVE KeepSpaced(_, _, _)
\* greedy left-to-right scan: reject a peak closer than min_duration to the last kept one
KeepSpaced(times, last, min_duration) ==
    IF times = << >> THEN << >>
    ELSE IF last >= 0 /\ Head(times) - last < min_duration
         THEN KeepSpaced(Tail(times), last, min_duration)
         ELSE <<Head(times)>> \o KeepSpaced(Tail(times), Head(times), min_duration)

RECURSIVE SortInts(_)
SortInts(S) ==
    IF S = {} THEN << >>
    ELSE LET m == CHOOSE x \in S : \A y \in S : x <= y
         IN <<m>> \o SortInts(S \ {m})

\* Peak(alpha, min_duration).apply(scores): the Timeline cut at every retained local maximum
Peak(scores, alpha, min_duration, duration) ==
    LET IsMax(i) == /\ (i > 1 => scores[i] > scores[i - 1])
                    /\ (i < NFrames => scores[i] > scores[i + 1])
        maxima == { FrameMiddle(i) : i \in { j \in 1..NFrames : IsMax(j) /\ scores[j] >= alpha } }
        peaks == KeepSpaced(SortInts(maxima), -1, min_duration)
        cuts == <<0>> \o peaks \o <<duration>>
    IN [i \in 1..(Len(cuts) - 1) |-> <<cuts[i], cuts[i + 1]>>]

----------------------------------------------------------------------------
(* Embeddings, cosine distance and clustering. *)

\* the embedding vectors the extractor may return
Vec == { <<5, 0>>, <<3, 4>>, <<3, -4>> }

Dot(a, b) == a[1] * b[1] + a[2] * b[2]
Norm(a) == CHOOSE n \in 0..20 : n * n = Dot(a, a)
\* cdist(..., metric="cosine") between two embeddings, in hundredths
CosineDistance(a, b) == 100 - (100 * Dot(a, b)) \div (Norm(a) * Norm(b))

RECURSIVE SumDistances(_, _, _)
SumDistances(X, A, B) ==
    IF A = {} THEN 0
    ELSE LET i == CHOOSE x \in A : TRUE
             row[S \in SUBSET B] ==
                 IF S = {} THEN 0
                 ELSE LET j == CHOOSE y \in S : TRUE
                      IN CosineDistance(X[i], X[j]) + row[S \ {j}]
         IN row[B] + SumDistances(X, A \ {i}, B)

RECURSIVE Agglomerate(_, _, _)
\* average-link agglomeration, stopped at the first merge distance above the threshold
Agglomerate(X, P, threshold) ==
    LET pairs == { pr \in P \X P : pr[1] # pr[2] }
        \* average distance of pr is <= that of qr
        Le(pr, qr) ==
            SumDistances(X, pr[1], pr[2]) * Cardinality(qr[1]) * Cardinality(qr[2])
              <= SumDistances(X, qr[1], qr[2]) * Cardinality(pr[1]) * Cardinality(pr[2])
    IN IF pairs = {} THEN P
       ELSE LET best == CHOOSE pr \in pairs : \A qr \in pairs : Le(pr, qr)
            IN IF SumDistances(X, best[1], best[2])
                    <= threshold * Cardinality(best[1]) * Cardinality(best[2])
               THEN Agglomerate(X, (P \ {best[1], best[2]}) \cup {best[1] \cup best[2]},
                                threshold)
               ELSE P

SetMin(S) == CHOOSE x \in S : \A y \in S : x <= y

\* fcluster(pool(X, metric="cosine"), threshold, criterion="distance"): labels 1..K
Fcluster(X, threshold) ==
    LET P == Agglomerate(X, { {i} : i \in DOMAIN X }, threshold)
        Of(i) == CHOOSE c \in P : i \in c
    IN [i \in DOMAIN X |->
          Cardinality({ c \in P : SetMin(c) <= SetMin(Of(i)) })]

----------------------------------------------------------------------------
(* Annotations. *)

\* Timeline(segments=...): the segments, sorted, each once
Timeline(segments) == SortSegments(Range(segments))

\* pyannote.core.utils.generators.string_generator: "A", "B", ...
StringGenerator ==
    <<"A", "B", "C", "D", "E", "F", "G", "H", "I", "J", "K", "L", "M",
      "N", "O", "P", "Q", "R", "S", "T", "U", "V", "W", "X", "Y", "Z">>
\* iter(lambda: "A", None)
ConstantGenerator == [i \in 1..26 |-> "A"]

\* Timeline.to_annotation(generator): the i-th segment takes the i-th label drawn
ToAnnotation(timeline, generator) ==
    { <<timeline[i], generator[i]>> : i \in 1..Len(timeline) }

\* Annotation.update(other): the tracks of both
Update(annotation, other) == annotation \cup other

LabelsAt(annotation, where) == { t[2] : t \in { u \in annotation : u[1] = where } }

----------------------------------------------------------------------------
(* SimpleDiarization.get_embedding *)

MIN_DURATION == Ms(157)

\* self.emb.crop raises RuntimeError when the waveform it is given is shorter than 157 ms
CropRaises(interval, duration) ==
    Min2(interval[2], duration) - Max2(interval[1], 0) < MIN_DURATION

ExtendedSegmentUnclamped(sgmt, duration) ==
    <<(Middle2(sgmt) - MIN_DURATION) \div 2, (Middle2(sgmt) + MIN_DURATION) \div 2>>
\* the interval of the except branch; segment.middle - 0.5 * MIN_DURATION < 0.0 is
\* compared after doubling both sides
ExtendedSegment(sgmt, duration) ==
    IF Middle2(sgmt) - MIN_DURATION < 0
    THEN <<0, MIN_DURATION>>
    ELSE IF Middle2(sgmt) + MIN_DURATION > 2 * duration
         THEN <<duration - MIN_DURATION, duration>>
         ELSE <<(Middle2(sgmt) - MIN_DURATION) \div 2, (Middle2(sgmt) + MIN_DURATION) \div 2>>

ArgminLast(distances) ==
    CHOOSE i \in DOMAIN distances :
        /\ \A k \in DOMAIN distances : distances[i] <= distances[k]
        /\ \A k \in DOMAIN distances : distances[k] = distances[i] => k <= i
\* np.argmin: the first index of the smallest value
Argmin(distances) ==
    CHOOSE i \in DOMAIN distances :
        /\ \A k \in DOMAIN distances : distances[i] <= distances[k]
        /\ \A k \in DOMAIN distances : distances[k] = distances[i] => i <= k

\* cluster_long[np.argmin(cdist(emb_long, emb_shrt, metric="cosine"), axis=0)]
ClusterShrt(e_long, e_shrt, c_long) ==
    [j \in DOMAIN e_shrt |->
        c_long[Argmin([i \in DOMAIN e_long |-> CosineDistance(e_long[i], e_shrt[j])])]]

MergeOnlyShrt(long_annotation, shrt_annotation) == shrt_annotation
\* seg_long.to_annotation(...).update(seg_shrt.to_annotation(...))
MergeLongShrt(long_annotation, shrt_annotation) == Update(long_annotation, shrt_annotation)

\* get_embedding returns np.mean(embeddings, axis=0), here v, to its caller
Deliver(v) ==
    IF caller = "user"
    THEN /\ emb_long' = Append(emb_long, v)
         /\ pc' = "done"
         /\ UNCHANGED <<emb_shrt, segment, hypothesis>>
    ELSE IF Len(emb_long) < Len(seg_long)
    THEN \* emb_long = np.vstack([self.get_embedding(current_file, s) for s in seg_long])
         /\ emb_long' = Append(emb_long, v)
         /\ IF Len(emb_long') < Len(seg_long)
            THEN segment' = seg_long[Len(emb_long') + 1] /\ pc' = "get_embedding"
            ELSE segment' = segment /\ pc' = "pool"
         /\ UNCHANGED <<emb_shrt, hypothesis>>
    ELSE \* emb_shrt = np.vstack([self.get_embedding(current_file, s) for s in seg_shrt])
         /\ emb_shrt' = Append(emb_shrt, v)
         /\ IF Len(emb_shrt') < Len(seg_shrt)
            THEN /\ segment' = seg_shrt[Len(emb_shrt') + 1]
                 /\ pc' = "get_embedding"
                 /\ UNCHANGED hypothesis
            ELSE /\ segment' = segment
                 /\ pc' = "done"
                 /\ hypothesis' =
                      MergeLongShrt(
                          ToAnnotation(Timeline(seg_long), cluster_long),
                          ToAnnotation(Timeline(seg_shrt),
                                       ClusterShrt(emb_long, emb_shrt', cluster_long)))
         /\ UNCHANGED emb_long

OnRuntimeErrorPropagate == "failed"
\* except RuntimeError as e: a RuntimeError raised inside the try block is handled
OnRuntimeError == "except"

\* try: embeddings = self.emb.crop(current_file, segment)
GetEmbeddingTry ==
    /\ pc = "get_embedding"
    /\ crops' = <<segment>>
    /\ extended_segment' = <<0, 0>>
    /\ n_crop' = n_crop + 1
    /\ IF CropRaises(segment, current_file["duration"])
       THEN /\ pc' = OnRuntimeError
            /\ UNCHANGED <<emb_long, emb_shrt, segment, hypothesis>>
       ELSE \E v \in Vec : Deliver(v)
    /\ UNCHANGED <<pipeline, hyper, current_file, caller, error,
                   detector_calls, n_pool, pool_input, speech, seg, seg_long, seg_shrt,
                   cluster_long, discrete_locals>>

\* except RuntimeError: extend the segment and crop again; a second RuntimeError propagates
GetEmbeddingExcept ==
    /\ pc = "except"
    /\ extended_segment' = ExtendedSegment(segment, current_file["duration"])
    /\ crops' = Append(crops, extended_segment')
    /\ n_crop' = n_crop + 1
    /\ IF CropRaises(extended_segment', current_file["duration"])
       THEN /\ pc' = "failed"
            /\ error' = "RuntimeError"
            /\ UNCHANGED <<emb_long, emb_shrt, segment, hypothesis>>
       ELSE /\ error' = error
            /\ \E v \in Vec : Deliver(v)
    /\ UNCHANGED <<pipeline, hyper, current_file, caller,
                   detector_calls, n_pool, pool_input, speech, seg, seg_long, seg_shrt,
                   cluster_long, discrete_locals>>

----------------------------------------------------------------------------
(* Hyper-parameters (instantiate, initialize) and the score cache. *)

SimpleHyper ==
    [sad_threshold_on : {5}, sad_threshold_off : {5}, scd_threshold : {5},
     seg_min_duration : {Ms(50), Ms(300)}, gap_min_duration : {Ms(0)},
     emb_duration : {Ms(500), Ms(1000)}, emb_threshold : {10, 50}]

DiscreteHyper ==
    [sad_threshold_on : {5}, sad_threshold_off : {5},
     sad_min_duration_on : {Ms(0)}, sad_min_duration_off : {Ms(0)},
     ovl_threshold_on : {5}, ovl_threshold_off : {5},
     ovl_min_duration_on : {Ms(0)}, ovl_min_duration_off : {Ms(0)},
     emb_threshold : {10}]

Extent == <<0, current_file["duration"]>>

\* if key in current_file: scores = current_file[key]
\* else: scores = detector(current_file), corrected
ObtainedScores(key) ==
    IF key \in DOMAIN current_file
    THEN {current_file[key]}
    ELSE { Correct(raw) : raw \in RawCurves }

\* current_file[key] = scores, on the branch that called the detector
Store(key, detector, scores) ==
    IF key \in DOMAIN current_file
    THEN UNCHANGED <<current_file, detector_calls>>
    ELSE /\ current_file' = (key :> scores) @@ current_file
         /\ detector_calls' = [detector_calls EXCEPT ![detector] = @ + 1]

----------------------------------------------------------------------------
(* SimpleDiarization.__call__ *)

\* seg = [s for s in seg if s.duration > min(0.1, self.seg_min_duration)]
FilterTiny(segments, seg_min_duration) ==
    SelectSeq(segments, LAMBDA s : Duration(s) > Min2(Ms(100), seg_min_duration))

\* seg_long = [s for s in seg if s.duration >= self.emb_duration]
LongSegments(segments, emb_duration) ==
    SelectSeq(segments, LAMBDA s : Duration(s) >= emb_duration)

\* seg_shrt = [s for s in seg if s.duration < self.emb_duration]
ShortSegments(segments, emb_duration) ==
    SelectSeq(segments, LAMBDA s : Duration(s) < emb_duration)

ZeroLongAnnotationOneLabel(segments) == ToAnnotation(Timeline(segments), ConstantGenerator)
\* Timeline(segments=seg, uri=uri).to_annotation(generator="string")
ZeroLongAnnotation(segments) == ToAnnotation(Timeline(segments), StringGenerator)

OneLongAnnotationOwnLabels(segments) == ToAnnotation(Timeline(segments), StringGenerator)
\* Timeline(segments=seg, uri=uri).to_annotation(generator=iter(lambda: "A", None))
OneLongAnnotation(segments) == ToAnnotation(Timeline(segments), ConstantGenerator)

\* instantiate the hyper-parameters, initialize, and enter __call__
Call ==
    /\ pc = "idle"
    /\ hyper' \in (IF pipeline.kind = "SimpleDiarization" THEN SimpleHyper ELSE DiscreteHyper)
    /\ pc' = IF pipeline.kind = "SimpleDiarization" THEN "sad" ELSE "emb"
    /\ UNCHANGED <<pipeline, current_file, caller, error, detector_calls, n_crop, n_pool,
                   pool_input, simple_locals, embedding_locals, discrete_locals,
                   hypothesis>>

\* speech activity detection scores, cached in the record, and their binarization
SimpleSad ==
    /\ pc = "sad"
    /\ pipeline.kind = "SimpleDiarization"
    /\ \E sad_scores \in ObtainedScores("sad_scores") :
         /\ Store("sad_scores", "sad", sad_scores)
         /\ speech' = Binarize(sad_scores, hyper.sad_threshold_on, hyper.sad_threshold_off,
                               hyper.seg_min_duration, hyper.gap_min_duration)
    /\ pc' = "scd"
    /\ UNCHANGED <<pipeline, hyper, caller, error, n_crop, n_pool,
                   pool_input, seg, seg_long, seg_shrt, emb_long, emb_shrt, cluster_long,
                   embedding_locals, discrete_locals, hypothesis>>

\* speaker change detection scores, peak detection, segmentation, and the two
\* degenerate outcomes (no long segment, exactly one long segment)
SimpleScd ==
    /\ pc = "scd"
    /\ \E scd_scores \in ObtainedScores("scd_scores") :
         /\ Store("scd_scores", "scd", scd_scores)
         /\ LET scd == Peak(scd_scores, hyper.scd_threshold, hyper.seg_min_duration,
                            current_file["duration"])
                cropped == Crop(scd, speech)
            IN seg' = FilterTiny(cropped, hyper.seg_min_duration)
    /\ seg_long' = LongSegments(seg', hyper.emb_duration)
    /\ IF Len(seg_long') = 0
       THEN /\ hypothesis' = ZeroLongAnnotation(seg')
            /\ pc' = "done"
            /\ UNCHANGED segment
       ELSE IF Len(seg_long') = 1
       THEN /\ hypothesis' = OneLongAnnotation(seg')
            /\ pc' = "done"
            /\ UNCHANGED segment
       ELSE /\ segment' = seg_long'[1]
            /\ pc' = "get_embedding"
            /\ UNCHANGED hypothesis
    /\ UNCHANGED <<pipeline, hyper, caller, error, n_crop, n_pool,
                   pool_input, speech, seg_shrt, emb_long, emb_shrt, cluster_long,
                   extended_segment, crops, discrete_locals>>

\* clustering of the long segments; the outcome when there is no short segment
SimplePool ==
    /\ pc = "pool"
    /\ pipeline.kind = "SimpleDiarization"
    /\ n_pool' = n_pool + 1
    /\ pool_input' = DOMAIN emb_long
    /\ cluster_long' = Fcluster(emb_long, hyper.emb_threshold)
    /\ seg_shrt' = ShortSegments(seg, hyper.emb_duration)
    /\ IF Len(seg_shrt') = 0
       THEN /\ hypothesis' = ToAnnotation(Timeline(seg), cluster_long')
            /\ pc' = "done"
            /\ UNCHANGED segment
       ELSE /\ segment' = seg_shrt'[1]
            /\ pc' = "get_embedding"
            /\ UNCHANGED hypothesis
    /\ UNCHANGED <<pipeline, hyper, current_file, caller, error,
                   detector_calls, n_crop, speech, seg, seg_long, emb_long, emb_shrt,
                   extended_segment, crops, discrete_locals>>

\* the invocation returns its annotation, or raises; its locals are dropped
Return ==
    /\ pc \in {"done", "failed"}
    /\ caller = "__call__"
    /\ pc' = "idle"
    /\ error' = "none"
    /\ n_crop' = 0
    /\ n_pool' = 0
    /\ pool_input' = {}
    /\ speech' = << >> /\ seg' = << >> /\ seg_long' = << >> /\ seg_shrt' = << >>
    /\ emb_long' = << >> /\ emb_shrt' = << >> /\ cluster_long' = << >>
    /\ segment' = <<0, 0>> /\ extended_segment' = <<0, 0>> /\ crops' = << >>
    /\ overlap' = << >> /\ emb' = << >>
    /\ speech_indices' = {} /\ clean_speech_indices' = {} /\ noisy_speech_indices' = {}
    /\ cluster' = << >> /\ num_clusters' = 0 /\ most_similar' = << >>
    /\ hypothesis' = {}
    /\ UNCHANGED <<pipeline, hyper, current_file, caller, detector_calls>>

----------------------------------------------------------------------------
(* DiscreteDiarization.__call__ *)

NoEmbedding == <<0, 0>>

\* the arrays self.emb(current_file) may return, told apart at the frames that are read
EmbeddingArrays(frames) ==
    { [i \in 1..NFrames |-> IF i \in frames THEN f[i] ELSE NoEmbedding] :
        f \in [frames -> Vec] }

RECURSIVE VecSum(_, _)
VecSum(e, frames) ==
    IF frames = {} THEN <<0, 0>>
    ELSE LET i == CHOOSE x \in frames : TRUE
             rest == VecSum(e, frames \ {i})
         IN <<e[i][1] + rest[1], e[i][2] + rest[2]>>

\* np.mean(emb[indices][cluster == k], axis=0), up to the positive factor 1/n that
\* the cosine distance ignores
ClusterEmb(e, clustering, k) ==
    VecSum(e, { i \in DOMAIN clustering : clustering[i] = k })

\* cosine distance of centroid c1 to v is at most that of centroid c2 to v:
\* Dot(c1, v) / |c1| >= Dot(c2, v) / |c2|, compared by sign and then by squares
NotFarther(c1, c2, v) ==
    LET x1 == Dot(c1, v)
        x2 == Dot(c2, v)
    IN IF x1 >= 0 /\ x2 < 0 THEN TRUE
       ELSE IF x1 < 0 /\ x2 >= 0 THEN FALSE
       ELSE IF x1 >= 0 THEN x1 * x1 * Dot(c2, c2) >= x2 * x2 * Dot(c1, c1)
       ELSE x1 * x1 * Dot(c2, c2) <= x2 * x2 * Dot(c1, c1)

\* np.argpartition raises ValueError when kth is out of bounds of a non-empty array
ArgpartitionRaises(kth, rows, columns) == columns # 0 /\ kth >= rows

\* np.argpartition(distance, kth, axis=0)[:kth], for the column of one frame: any kth
\* rows none of which is farther than a row left out
ArgpartitionHeads(e, clustering, n, kth, frame) ==
    { S \in SUBSET (0..(n - 1)) :
        /\ Cardinality(S) = kth
        /\ \A a \in S, b \in (0..(n - 1)) \ S :
             NotFarther(ClusterEmb(e, clustering, a), ClusterEmb(e, clustering, b), e[frame]) }

\* one_hot_decoding of the matrix with y[i, k] = 1 for the listed pairs, cropped to
\* a timeline: a frame keeps its labels where the timeline covers it
DecodeAndCrop(y, timeline) ==
    { t \in y : \E s \in Range(timeline) :
                  Max2(s[1], FrameStart(t[1])) < Min2(s[2], FrameEnd(t[1])) }

\* fcluster(pool(emb[indices], metric="cosine"), emb_threshold) - 1
FrameClusters(e, indices, threshold) ==
    LET idx == SortInts(indices)
        labels == Fcluster([j \in 1..Len(idx) |-> e[idx[j]]], threshold)
    IN [i \in indices |-> labels[CHOOSE j \in 1..Len(idx) : idx[j] = i] - 1]

CleanSpeech == Crop(speech, Gaps(overlap, Extent))
NoisySpeech == Crop(speech, overlap)

\* emb = self.emb(current_file); the array is first read by the clustering
DiscreteEmb ==
    /\ pc = "emb"
    /\ pc' = "sad"
    /\ UNCHANGED <<pipeline, hyper, current_file, caller, error, calls, simple_locals,
                   embedding_locals, discrete_locals, hypothesis>>

\* np.where(one_hot_encoding(speech, ...)[: len(emb)])[0]
SpeechIndices(timeline) == OneHotEncoding(timeline)

\* speech activity detection; an empty Annotation when no frame is speech
DiscreteSad ==
    /\ pc = "sad"
    /\ pipeline.kind = "DiscreteDiarization"
    /\ \E sad_scores \in ObtainedScores("sad_scores") :
         /\ Store("sad_scores", "sad", sad_scores)
         /\ speech' = Binarize(sad_scores, hyper.sad_threshold_on, hyper.sad_threshold_off,
                               hyper.sad_min_duration_on, hyper.sad_min_duration_off)
    /\ speech_indices' = SpeechIndices(speech')
    /\ IF speech_indices' = {}
       THEN pc' = "done" /\ hypothesis' = {}
       ELSE /\ pc' = IF pipeline.ovl THEN "ovl" ELSE "pool"
            /\ UNCHANGED hypothesis
    /\ UNCHANGED <<pipeline, hyper, caller, error, n_crop, n_pool,
                   pool_input, seg, seg_long, seg_shrt, emb_long, emb_shrt, cluster_long,
                   embedding_locals, overlap, emb, clean_speech_indices,
                   noisy_speech_indices, cluster, num_clusters, most_similar>>

\* overlapped speech detection
DiscreteOvl ==
    /\ pc = "ovl"
    /\ \E ovl_scores \in ObtainedScores("ovl_scores") :
         /\ Store("ovl_scores", "ovl", ovl_scores)
         /\ overlap' = Binarize(ovl_scores, hyper.ovl_threshold_on, hyper.ovl_threshold_off,
                                hyper.ovl_min_duration_on, hyper.ovl_min_duration_off)
    /\ clean_speech_indices' = speech_indices \ OneHotEncoding(overlap')
    /\ noisy_speech_indices' = speech_indices \cap OneHotEncoding(overlap')
    /\ pc' = "pool"
    /\ UNCHANGED <<pipeline, hyper, caller, error, n_crop, n_pool,
                   pool_input, simple_locals, embedding_locals, emb, speech_indices,
                   cluster, num_clusters, most_similar, hypothesis>>

\* indices = speech_indices if self.ovl is None else clean_speech_indices
ClusteredIndices == IF pipeline.ovl THEN clean_speech_indices ELSE speech_indices

\* clustering of the selected frames, decoding, and the reassignment of the
\* overlapped frames to the clusters of the nearest centroids
DiscretePool ==
    /\ pc = "pool"
    /\ pipeline.kind = "DiscreteDiarization"
    /\ n_pool' = n_pool + 1
    /\ pool_input' = ClusteredIndices
    /\ IF ClusteredIndices = {}
       THEN \* np.max of an empty array
            /\ pc' = "failed"
            /\ error' = "ValueError"
            /\ UNCHANGED <<emb, cluster, num_clusters, most_similar, hypothesis>>
       ELSE /\ emb' \in EmbeddingArrays(speech_indices)
            /\ cluster' = FrameClusters(emb', ClusteredIndices, hyper.emb_threshold)
            /\ num_clusters' = SetMin({ -c : c \in Range(cluster') }) * (-1) + 1
            /\ LET clean == DecodeAndCrop({ <<i, cluster'[i]>> : i \in ClusteredIndices },
                                          IF pipeline.ovl THEN CleanSpeech ELSE speech)
                   kth == Min2(2, num_clusters')
               IN IF ~pipeline.ovl
                  THEN /\ hypothesis' = clean
                       /\ pc' = "done"
                       /\ UNCHANGED <<error, most_similar>>
                  ELSE IF ArgpartitionRaises(kth, num_clusters',
                                             Cardinality(noisy_speech_indices))
                  THEN /\ pc' = "failed"
                       /\ error' = "ValueError"
                       /\ UNCHANGED <<most_similar, hypothesis>>
                  ELSE /\ most_similar' \in
                            { m \in [noisy_speech_indices -> SUBSET (0..(num_clusters' - 1))] :
                                \A i \in noisy_speech_indices :
                                  m[i] \in ArgpartitionHeads(emb', cluster', num_clusters',
                                                             kth, i) }
                       /\ hypothesis' =
                            Update(clean,
                                   DecodeAndCrop({ <<i, k>> \in noisy_speech_indices
                                                       \X (0..(num_clusters' - 1)) :
                                                     k \in most_similar'[i] },
                                                 NoisySpeech))
                       /\ pc' = "done"
                       /\ UNCHANGED error
    /\ UNCHANGED <<pipeline, hyper, current_file, caller, detector_calls,
                   n_crop, simple_locals, embedding_locals, overlap, speech_indices,
                   clean_speech_indices, noisy_speech_indices>>

----------------------------------------------------------------------------
(* The specifications. *)

NoLocals ==
    /\ speech = << >> /\ seg = << >> /\ seg_long = << >> /\ seg_shrt = << >>
    /\ emb_long = << >> /\ emb_shrt = << >> /\ cluster_long = << >>
    /\ extended_segment = <<0, 0>> /\ crops = << >>
    /\ overlap = << >> /\ emb = << >>
    /\ speech_indices = {} /\ clean_speech_indices = {} /\ noisy_speech_indices = {}
    /\ cluster = << >> /\ num_clusters = 0 /\ most_similar = << >>
    /\ hypothesis = {}
    /\ error = "none" /\ n_crop = 0 /\ n_pool = 0 /\ pool_input = {}
    /\ detector_calls = [sad |-> 0, scd |-> 0, ovl |-> 0]

\* a pipeline has been constructed; the recording record holds no scores yet
Init ==
    /\ pipeline \in { [kind |-> "SimpleDiarization", ovl |-> FALSE],
                      [kind |-> "DiscreteDiarization", ovl |-> FALSE],
                      [kind |-> "DiscreteDiarization", ovl |-> TRUE] }
    /\ hyper = [instantiated |-> FALSE]
    /\ current_file = ("duration" :> NFrames * Step)
    /\ pc = "idle"
    /\ caller = "__call__"
    /\ segment = <<0, 0>>
    /\ NoLocals

Next ==
    \/ Call
    \/ SimpleSad
    \/ SimpleScd
    \/ GetEmbeddingTry
    \/ GetEmbeddingExcept
    \/ SimplePool
    \/ DiscreteEmb
    \/ DiscreteSad
    \/ DiscreteOvl
    \/ DiscretePool
    \/ Return

Spec == Init /\ [][Next]_vars

\* the recordings and segments get_embedding is called on directly
EmbDurations == { Ms(100), Ms(157), Ms(200), Ms(10000) }
EmbTimes ==
    { Ms(0), Ms(50), Ms(100), Ms(150), Ms(200), Ms(4975), Ms(5025), Ms(9900), Ms(9950),
      Ms(10000) }

\* pipeline.get_embedding(current_file, segment) is about to run
InitEmb ==
    /\ pipeline = [kind |-> "SimpleDiarization", ovl |-> FALSE]
    /\ hyper = [instantiated |-> FALSE]
    /\ \E d \in EmbDurations : current_file = ("duration" :> d)
    /\ segment \in { s \in EmbTimes \X EmbTimes : s[1] < s[2] /\ s[2] <= current_file["duration"] }
    /\ pc = "get_embedding"
    /\ caller = "user"
    /\ NoLocals

NextEmb ==
    \/ GetEmbeddingTry
    \/ GetEmbeddingExcept

SpecEmb == InitEmb /\ [][NextEmb]_vars

----------------------------------------------------------------------------
(* The claims. *)

SimpleReturned ==
    pipeline.kind = "SimpleDiarization" /\ caller = "__call__" /\ pc = "done"

DiscreteEnded ==
    pipeline.kind = "DiscreteDiarization" /\ pc \in {"done", "failed"}

\* cosine distance between the i-th long and the j-th short embedding
LongShrtDistance(i, j) == CosineDistance(emb_long[i], emb_shrt[j])

\* C1: with an overlap detector, once the clean frames are clustered into
\* num_clusters >= 1 clusters, the invocation completes without error and every
\* noisy frame carries exactly min(2, num_clusters) labels, those of the clusters
\* with the nearest centroids.
C1_NoisyFramesGetNearestClusters ==
    (DiscreteEnded /\ pipeline.ovl /\ num_clusters >= 1 /\ noisy_speech_indices # {})
      => /\ pc = "done"
         /\ \A i \in noisy_speech_indices :
              LET labels == LabelsAt(hypothesis, i)
              IN /\ Cardinality(labels) = Min2(2, num_clusters)
                 /\ \A a \in labels, b \in (0..(num_clusters - 1)) \ labels :
                      NotFarther(ClusterEmb(emb, cluster, a), ClusterEmb(emb, cluster, b),
                                 emb[i])

\* C2: when the set of frames selected for clustering is empty, the frame-level
\* invocation returns an empty Annotation without calling the clustering and
\* without raising.
C2_EmptySelectionReturnsEmpty ==
    (DiscreteEnded /\ ClusteredIndices = {})
      => pc = "done" /\ error = "none" /\ hypothesis = {} /\ n_pool = 0

\* C3: every segment of the annotation returned by the segment-level variant
\* lasts at least seg_min_duration.
C3_TurnsLastSegMinDuration ==
    SimpleReturned
      => \A t \in hypothesis : Duration(t[1]) >= hyper.seg_min_duration

\* the checks C4 makes of the interval get_embedding falls back to
ExtensionAsClaimed ==
    LET d == current_file["duration"]
        m2 == Middle2(segment)
    IN /\ Duration(extended_segment) = MIN_DURATION
       /\ 0 <= extended_segment[1]
       /\ extended_segment[2] <= d
       /\ IF m2 - MIN_DURATION >= 0 /\ m2 + MIN_DURATION <= 2 * d
          THEN extended_segment[1] + extended_segment[2] = m2
          ELSE \/ extended_segment[1] = 0 /\ m2 <= d
               \/ extended_segment[2] = d /\ m2 >= d
       /\ segment = <<Ms(4975), Ms(5025)>> => extended_segment = <<49215, 50785>>

\* C4 as stated: for every segment and every recording duration, the interval of
\* the fallback is exactly 157 ms long, lies inside [0, total_duration], is
\* centred on the segment's midpoint when that fits and is otherwise shifted
\* entirely to the nearer boundary.
C4_ExtensionForEveryDuration ==
    Len(crops) = 2 => ExtensionAsClaimed

\* C4 as amended: the same, for recordings of at least 157 ms.
C4_ExtensionInLongEnoughRecording ==
    (Len(crops) = 2 /\ current_file["duration"] >= MIN_DURATION) => ExtensionAsClaimed

C4_Witness ==
    /\ Len(crops) = 2
    /\ current_file["duration"] = Ms(10000)
    /\ segment = <<Ms(9950), Ms(10000)>>
    /\ extended_segment = <<Ms(10000) - MIN_DURATION, Ms(10000)>>

\* C5: with at least two long segments, every short segment carries the label of
\* the long segment whose embedding is nearest to its own in cosine distance,
\* the first such long segment in time order when several are equally near.
C5_ShortTakesNearestLong ==
    (SimpleReturned /\ Len(seg_long) >= 2)
      => \A j \in 1..Len(seg_shrt) :
           \E i \in 1..Len(seg_long) :
             /\ LabelsAt(hypothesis, seg_shrt[j]) = {cluster_long[i]}
             /\ \A k \in 1..Len(seg_long) : LongShrtDistance(i, j) <= LongShrtDistance(k, j)
             /\ \A k \in 1..(i - 1) : LongShrtDistance(k, j) > LongShrtDistance(i, j)

C5_Witness ==
    /\ SimpleReturned
    /\ Len(seg_long) >= 2
    /\ \E j \in 1..Len(seg_shrt) :
         \E i, k \in 1..Len(seg_long) :
           /\ i < k
           /\ LongShrtDistance(i, j) = LongShrtDistance(k, j)
           /\ \A l \in 1..Len(seg_long) : LongShrtDistance(i, j) <= LongShrtDistance(l, j)
           /\ cluster_long[i] # cluster_long[k]

\* C6: with no long segment, the n candidate segments come out as n clusters of
\* one segment each, and neither the extractor nor the clustering is called.
C6_NoLongSegmentSingletons ==
    (SimpleReturned /\ Len(seg_long) = 0)
      => /\ Cardinality(hypothesis) = Len(seg)
         /\ \A s \in Range(seg) : Cardinality(LabelsAt(hypothesis, s)) = 1
         /\ \A t, u \in hypothesis : t[2] = u[2] => t = u
         /\ n_crop = 0
         /\ n_pool = 0

C6_Witness ==
    SimpleReturned /\ Len(seg_long) = 0 /\ Len(seg) = 3 /\ Cardinality(hypothesis) = 3

\* C7: with exactly one long segment, all candidate segments carry one and the
\* same label, and neither the extractor nor the clustering is called.
C7_OneLongSegmentOneCluster ==
    (SimpleReturned /\ Len(seg_long) = 1)
      => /\ \A s \in Range(seg) : Cardinality(LabelsAt(hypothesis, s)) = 1
         /\ \A t, u \in hypothesis : t[2] = u[2]
         /\ n_crop = 0
         /\ n_pool = 0

C7_Witness ==
    /\ SimpleReturned
    /\ Len(seg_long) = 1
    /\ Len(seg) >= 3
    /\ \A s \in Range(seg) : LabelsAt(hypothesis, s) = {"A"}

\* C8: get_embedding calls the extractor at most twice: on the segment and, only
\* when that call failed on a segment shorter than 157 ms, once more on an
\* interval of 157 ms; when the second call fails too the failure propagates
\* and nothing is returned.
C8_AtMostOneRetry ==
    /\ Len(crops) <= 2
    /\ Len(crops) >= 1 => crops[1] = segment
    /\ pc = "except" => Len(crops) = 1 /\ Duration(segment) < MIN_DURATION
    /\ Len(crops) = 2
         => /\ Duration(segment) < MIN_DURATION
            /\ Duration(crops[2]) = MIN_DURATION
            /\ crops[2] # segment
    /\ (pc = "done" /\ Duration(segment) < MIN_DURATION) => Len(crops) = 2
    /\ pc = "failed"
         => /\ error = "RuntimeError"
            /\ Len(crops) = 2
            /\ emb_long = << >>
            /\ hypothesis = {}

C8_Witness ==
    pc = "failed" /\ error = "RuntimeError" /\ Len(crops) = 2 /\ n_crop = 2

ScoreKeys == [sad |-> "sad_scores", scd |-> "scd_scores", ovl |-> "ovl_scores"]

\* C9: each detector is called at most once on a recording record: a call is
\* made only when the record holds no curve under the detector's key, it stores
\* the curve with log-probabilities turned into probabilities, and a stored
\* curve is never computed again nor overwritten.
C9_ScoresComputedOnce ==
    [][\A d \in DOMAIN ScoreKeys :
         LET key == ScoreKeys[d]
         IN /\ detector_calls'[d] <= 1
            /\ detector_calls'[d] # detector_calls[d]
                 => /\ key \notin DOMAIN current_file
                    /\ key \in DOMAIN current_file'
            /\ key \in DOMAIN current_file
                 => /\ key \in DOMAIN current_file'
                    /\ current_file'[key] = current_file[key]
                    /\ detector_calls'[d] = detector_calls[d]
            /\ key \in DOMAIN current_file'
                 => /\ detector_calls'[d] = 1
                    /\ \A i \in 1..NFrames : current_file'[key][i] \in 0..10]_vars

\* a later invocation has read the speech curve and is about to read the change
\* curve, both stored by an earlier one
C9_Witness ==
    /\ pipeline.kind = "SimpleDiarization"
    /\ pc = "scd"
    /\ "scd_scores" \in DOMAIN current_file
    /\ detector_calls = [sad |-> 1, scd |-> 1, ovl |-> 0]

\* C10: the annotation returned by the segment-level variant holds exactly the
\* candidate segments that passed the duration filter, each with one label; long
\* and short segments partition them, the i-th long segment carries the i-th
\* clustering label and every short segment carries the label of a long one.
C10_AnnotationCoversCandidates ==
    SimpleReturned
      => /\ { t[1] : t \in hypothesis } = Range(seg)
         /\ \A s \in Range(seg) : Cardinality(LabelsAt(hypothesis, s)) = 1
         /\ Range(seg_long) = { s \in Range(seg) : Duration(s) >= hyper.emb_duration }
         /\ Len(seg_long) >= 2
              => /\ Range(seg_long) \cup Range(seg_shrt) = Range(seg)
                 /\ Range(seg_long) \cap Range(seg_shrt) = {}
                 /\ \A i \in 1..Len(seg_long) :
                      /\ LabelsAt(hypothesis, seg_long[i]) = {cluster_long[i]}
                      /\ \A k \in 1..(i - 1) : seg_long[k][1] < seg_long[i][1]
                 /\ \A s \in Range(seg_shrt) :
                      LabelsAt(hypothesis, s) \subseteq Range(cluster_long)

C10_Witness ==
    SimpleReturned /\ Len(seg_long) >= 2 /\ Len(seg_shrt) >= 1 /\ Len(seg) = 3

====
